---------------------------- MODULE Spec2Model ----------------------------
(***************************************************************************)
(* A model of distrod/libs/src/envfile.rs: the line grammar of an          *)
(* environment file, the EnvFile document with its variable index, the     *)
(* PathVariable merge engine, and the EnvShellScript generator with the    *)
(* shell that executes its script.                                         *)
(*                                                                         *)
(* A string is a sequence of one-character strings (one per byte; the      *)
(* model's texts are ASCII, on which String::from_utf8_lossy is the        *)
(* identity).  A parser takes the input and the position of the next       *)
(* unread character (1 .. Len + 1) and gives the position after what it    *)
(* consumed, or Fail where nom gives Err::Error.                           *)
(***************************************************************************)
EXTENDS Integers, Sequences, FiniteSets, TLC

VARIABLES
    file,           \* the content of the file at file_path
    src,            \* the content the file had at the start (never assigned)
    opened,         \* whether an EnvFile value exists
    envs,           \* EnvFile.envs: key -> index (from 0) into env_file_lines
    env_file_lines, \* EnvFile.env_file_lines
    fault,          \* the last call ended in a panic
    history,        \* the calls made so far, oldest first
    prev,           \* envs and env_file_lines as they were before the last call
    pv_src,         \* the string a PathVariable was parsed from
    pv,             \* the PathVariable
    pv_prev,        \* the PathVariable as it was before the last put_path
    pv_hist,        \* the arguments of the PathVariable::put_path calls so far
    file_status,    \* what File::open finds at file_path
    sh_envs,        \* EnvShellScript.envs
    sh_paths,       \* EnvShellScript.paths: directory -> prepends
    sh_hist,        \* the calls on the EnvShellScript and the shell runs so far
    sh_file,        \* the file EnvShellScript::write writes to
    shell,          \* the variables of the shell that runs the script
    shell_prev      \* the variables of the shell before the last run

vars == <<file, src, opened, envs, env_file_lines, fault, history, prev,
          pv_src, pv, pv_prev, pv_hist, file_status,
          sh_envs, sh_paths, sh_hist, sh_file, shell, shell_prev>>

envfile_vars ==
    <<file, src, opened, envs, env_file_lines, fault, history, prev, file_status>>

script_vars == <<sh_envs, sh_paths, sh_hist, sh_file, shell, shell_prev>>

path_vars == <<pv_src, pv, pv_prev, pv_hist>>

(***************************************************************************)
(* Strings                                                                 *)
(***************************************************************************)
Fail == 0

Letters ==
    {"a", "b", "c", "d", "e", "f", "g", "h", "i", "j", "k", "l", "m",
     "n", "o", "p", "q", "r", "s", "t", "u", "v", "w", "x", "y", "z",
     "A", "B", "C", "D", "E", "F", "G", "H", "I", "J", "K", "L", "M",
     "N", "O", "P", "Q", "R", "S", "T", "U", "V", "W", "X", "Y", "Z"}

Digits == {"0", "1", "2", "3", "4", "5", "6", "7", "8", "9"}

Contains(s, c) == \E i \in 1..Len(s) : s[i] = c

Last(s) == s[Len(s)]

\* the concatenation of a sequence of strings, by halves
RECURSIVE Concat(_)
Concat(ss) ==
    IF ss = <<>> THEN <<>>
    ELSE IF Len(ss) = 1 THEN ss[1]
    ELSE LET half == Len(ss) \div 2
         IN  Concat(SubSeq(ss, 1, half)) \o Concat(SubSeq(ss, half + 1, Len(ss)))

RECURSIVE Join(_, _)
Join(ss, sep) ==
    IF ss = <<>> THEN <<>>
    ELSE IF Len(ss) = 1 THEN ss[1]
    ELSE ss[1] \o sep \o Join(Tail(ss), sep)

Reverse(s) == [i \in 1..Len(s) |-> s[Len(s) + 1 - i]]

HasPrefixAt(s, i, t) ==
    /\ i + Len(t) - 1 <= Len(s)
    /\ SubSeq(s, i, i + Len(t) - 1) = t

\* take_while(|c| c in set): the position after the longest run from i,
\* that is the first position from i on that is past the end or not in set
SkipIn(s, i, set) ==
    CHOOSE j \in i..(Len(s) + 1) :
        /\ j = Len(s) + 1 \/ s[j] \notin set
        /\ \A k \in i..(j - 1) : s[k] \in set

\* take_while(|c| c not in set)
SkipNotIn(s, i, set) ==
    CHOOSE j \in i..(Len(s) + 1) :
        /\ j = Len(s) + 1 \/ s[j] \in set
        /\ \A k \in i..(j - 1) : s[k] \notin set

\* str::replace of a character by a string
ReplaceChar(s, c, by) ==
    Concat([i \in 1..Len(s) |-> IF s[i] = c THEN by ELSE <<s[i]>>])

\* s.replace("'", "'\"'\"'") wrapped in single quotes
single_quote_str_for_shell(s) ==
    <<"'">> \o ReplaceChar(s, "'", <<"'", "\"", "'", "\"", "'">>) \o <<"'">>

(***************************************************************************)
(* Line grammar                                                            *)
(***************************************************************************)
EXPORT == <<"e", "x", "p", "o", "r", "t">>

Spaces == {" ", "\t"}

space0(s, i) == SkipIn(s, i, Spaces)

space1(s, i) == LET j == SkipIn(s, i, Spaces) IN IF j = i THEN Fail ELSE j

line_ending(s, i) ==
    IF HasPrefixAt(s, i, <<"\n">>) THEN i + 1
    ELSE IF HasPrefixAt(s, i, <<"\r", "\n">>) THEN i + 2
    ELSE Fail

opt_line_ending(s, i) ==
    LET j == line_ending(s, i) IN IF j = Fail THEN i ELSE j

leading_characters(s, i) ==
    LET a == space0(s, i)
        b == IF HasPrefixAt(s, a, EXPORT) THEN a + Len(EXPORT) ELSE a
    IN  space0(s, b)

declaration_key(s, i) ==
    LET j == SkipIn(s, i, Letters \cup Digits \cup {"_"})
    IN  IF j = i THEN Fail ELSE j

\* many1(alt((regular_char, escaped_char))): none_of("\n# \t\\") takes one
\* character, pair(char('\\'), take(1)) takes two and fails at the end of
\* input; a run of regular characters is taken at once
RECURSIVE value_chars(_, _)
value_chars(s, i) ==
    LET j == SkipNotIn(s, i, {"\n", "#", " ", "\t", "\\"})
    IN  IF j + 1 <= Len(s) /\ s[j] = "\\" THEN value_chars(s, j + 2) ELSE j

value_run(s, i) == LET j == value_chars(s, i) IN IF j = i THEN Fail ELSE j

\* separated_list0 after its first element: a separator is consumed only
\* when an element follows it
RECURSIVE value_more(_, _)
value_more(s, i) ==
    LET sp == space1(s, i)
    IN  IF sp = Fail THEN i
        ELSE LET e == value_run(s, sp)
             IN  IF e = Fail THEN i ELSE value_more(s, e)

declaration_value(s, i) ==
    LET first == value_run(s, i)
    IN  IF first = Fail THEN i ELSE value_more(s, first)

following_characters(s, i) == SkipNotIn(s, i, {"\n"})

EnvLine(k, v, l, f) ==
    [tag |-> "Env", key |-> k, value |-> v,
     leading_characters |-> l, following_characters |-> f]

OtherLine(t) == [tag |-> "Other", text |-> t]

NoParse == [ok |-> FALSE]

EnvStatementParse(s, i) ==
    LET l == leading_characters(s, i)
        k == declaration_key(s, l)
    IN  IF k = Fail \/ ~HasPrefixAt(s, k, <<"=">>) THEN NoParse
        ELSE LET v == declaration_value(s, k + 1)
                 f == following_characters(s, v)
             IN  [ok |-> TRUE,
                  rest |-> opt_line_ending(s, f),
                  line |-> EnvLine(SubSeq(s, l, k - 1), SubSeq(s, k + 1, v - 1),
                                   SubSeq(s, i, l - 1), SubSeq(s, v, f - 1))]
\* a serializer that forgets the text after the value
EnvStatementSerializeNoFollowing(env) ==
    env.leading_characters \o env.key \o <<"=">> \o env.value \o <<"\n">>

EnvStatementSerialize(env) ==
    env.leading_characters \o env.key \o <<"=">> \o env.value
        \o env.following_characters \o <<"\n">>

\* an opaque line parser without the branch of the empty line
OtherLineParseNoEmptyLine(s, i) ==
    IF SkipNotIn(s, i, {"\n"}) # i
    THEN [ok |-> TRUE, rest |-> opt_line_ending(s, SkipNotIn(s, i, {"\n"})),
          line |-> OtherLine(SubSeq(s, i, SkipNotIn(s, i, {"\n"}) - 1) \o <<"\n">>)]
    ELSE NoParse

OtherLineParse(s, i) ==
    LET j == SkipNotIn(s, i, {"\n"})
    IN  IF j # i
        THEN [ok |-> TRUE, rest |-> opt_line_ending(s, j),
              line |-> OtherLine(SubSeq(s, i, j - 1) \o <<"\n">>)]
        ELSE IF line_ending(s, i) # Fail
        THEN [ok |-> TRUE, rest |-> line_ending(s, i),
              line |-> OtherLine(<<"\n">>)]
        ELSE NoParse

\* alt((a, b)): the result of the first parser unless it is an error
alt(a, b) == IF a.ok THEN a ELSE b

EnvFileLineParse(s, i) == alt(EnvStatementParse(s, i), OtherLineParse(s, i))

EnvFileLineSerialize(line) ==
    IF line.tag = "Env" THEN EnvStatementSerialize(line) ELSE line.text

\* many1(EnvFileLine::parse): stops at the first error, and is itself an
\* error when no line parsed or when a line consumed nothing
RECURSIVE many1_lines(_, _, _)
\* one round of many1 on the result r of the line parser at i
many1_round(s, i, acc, r) ==
    IF ~r.ok THEN [ok |-> acc # <<>>, rest |-> i, lines |-> acc]
    ELSE IF r.rest = i THEN [ok |-> FALSE, rest |-> i, lines |-> acc]
    ELSE many1_lines(s, r.rest, Append(acc, r.line))

many1_lines(s, i, acc) == many1_round(s, i, acc, EnvFileLineParse(s, i))

EnvFileLinesParse(input) ==
    IF input = <<>> THEN [ok |-> TRUE, rest |-> 1, lines |-> <<>>]
    ELSE many1_lines(input, 1, <<>>)

EnvFileLinesSerialize(lines) ==
    Concat([i \in 1..Len(lines) |-> EnvFileLineSerialize(lines[i])])

(***************************************************************************)
(* PathVariable                                                            *)
(***************************************************************************)
\* val.split(':'): always at least one segment
RECURSIVE Split(_, _)
Split(s, c) ==
    LET k == SkipNotIn(s, 1, {c})
    IN  IF k > Len(s) THEN <<s>>
        ELSE <<SubSeq(s, 1, k - 1)>> \o Split(SubSeq(s, k + 1, Len(s)), c)

starts_with(s, c) == s # <<>> /\ s[1] = c

ends_with(s, c) == s # <<>> /\ s[Len(s)] = c

quote_candidates == <<"\"", "'">>

\* a detection that looks only at the first and at the last character of
\* the value
IsSurroundingByEnds(paths, quote) ==
    /\ starts_with(paths[1], quote)
    /\ ends_with(paths[Len(paths)], quote)

IsSurrounding(paths, quote) ==
    /\ starts_with(paths[1], quote) /\ ~ends_with(paths[1], quote)
    /\ ~starts_with(paths[Len(paths)], quote) /\ ends_with(paths[Len(paths)], quote)

\* Option<char> as a sequence of at most one character
FindSurroundingQuote(paths) ==
    IF IsSurrounding(paths, quote_candidates[1]) THEN <<quote_candidates[1]>>
    ELSE IF IsSurrounding(paths, quote_candidates[2]) THEN <<quote_candidates[2]>>
    ELSE <<>>

\* the two slices of PathVariable::parse, &paths[0][1..] and then
\* &paths[len - 1][..paths[len - 1].len() - 1], panic on an empty string
StripSurroundingPanics(paths) ==
    \/ paths[1] = <<>>
    \/ [paths EXCEPT ![1] = Tail(paths[1])][Len(paths)] = <<>>

\* a strip that leaves the last segment as it is
StripSurroundingFirstOnly(paths) == [paths EXCEPT ![1] = Tail(paths[1])]

StripSurrounding(paths) ==
    LET a == [paths EXCEPT ![1] = Tail(paths[1])]
        n == Len(a)
    IN  [a EXCEPT ![n] = SubSeq(a[n], 1, Len(a[n]) - 1)]

PathVariableParse(val) ==
    LET split == Split(val, ":")
        quote == FindSurroundingQuote(split)
        paths == IF quote # <<>> THEN StripSurrounding(split) ELSE split
    IN  [parsed_paths |-> paths,
         added_paths |-> <<>>,
         path_set |-> {paths[i] : i \in 1..Len(paths)},
         surrounding_quote |-> quote]

quote_path_if_necessary(p, path) ==
    IF p.surrounding_quote = <<>> THEN single_quote_str_for_shell(path) ELSE path

PathVariableSerialize(p) ==
    LET added == [i \in 1..Len(p.added_paths) |->
                      quote_path_if_necessary(p, p.added_paths[i])]
        path_var == Join(Reverse(added) \o p.parsed_paths, <<":">>)
    IN  p.surrounding_quote \o path_var \o p.surrounding_quote
\* a put_path that does not look the directory up
PathVariablePutPathUnchecked(p, path_val) ==
    [p EXCEPT !.added_paths = Append(@, path_val),
              !.path_set = @ \cup {path_val}]

PathVariablePutPath(p, path_val) ==
    IF path_val \in p.path_set THEN p
    ELSE [p EXCEPT !.added_paths = Append(@, path_val),
                   !.path_set = @ \cup {path_val}]
\* an iterator that lists the added directories oldest first
PathVariableIterOldestFirst(p) == p.added_paths \o p.parsed_paths

PathVariableIter(p) == Reverse(p.added_paths) \o p.parsed_paths

(***************************************************************************)
(* EnvFile                                                                 *)
(***************************************************************************)
EmptyMap == [k \in {} |-> 0]

\* HashMap::insert
Insert(m, k, v) == [x \in DOMAIN m \cup {k} |-> IF x = k THEN v ELSE m[x]]
\* an index that keeps the first assignment of a key
RECURSIVE IndexLinesFirstWins(_, _, _)
IndexLinesFirstWins(lines, i, m) ==
    IF i >= Len(lines) THEN m
    ELSE IndexLinesFirstWins(lines, i + 1,
                             IF lines[i + 1].tag = "Env"
                                    /\ lines[i + 1].key \notin DOMAIN m
                             THEN Insert(m, lines[i + 1].key, i) ELSE m)

\* the loop of EnvFile::open over env_file_lines.iter().enumerate()
RECURSIVE IndexLines(_, _, _)
IndexLines(lines, i, m) ==
    IF i >= Len(lines) THEN m
    ELSE IndexLines(lines, i + 1,
                    IF lines[i + 1].tag = "Env"
                    THEN Insert(m, lines[i + 1].key, i) ELSE m)

\* EnvFile::open of a file that exists and can be read
\* the EnvFile built from the result of EnvFileLines::parse
EnvFileOf(parsed) ==
    IF ~parsed.ok THEN [ok |-> FALSE]
    ELSE [ok |-> TRUE,
          envs |-> IndexLines(parsed.lines, 0, EmptyMap),
          env_file_lines |-> parsed.lines]

EnvFileOpen(content) == EnvFileOf(EnvFileLinesParse(content))
\* an open that takes every failure of File::open as an error
EnvFileOpenAtStrict(status, content) ==
    IF status = "Exists" THEN EnvFileOpen(content) ELSE [ok |-> FALSE]

\* EnvFile::open by what File::open and read_to_end meet at the path: no
\* file (ErrorKind::NotFound), a file that cannot be opened, a file that
\* cannot be read, or a file with its content
EnvFileOpenAt(status, content) ==
    IF status = "NotFound"
    THEN [ok |-> TRUE, envs |-> EmptyMap, env_file_lines |-> <<>>]
    ELSE IF status \in {"Denied", "Unreadable"} THEN [ok |-> FALSE]
    ELSE EnvFileOpen(content)

None == [kind |-> "None"]

Some(v) == [kind |-> "Some", value |-> v]

Panic == [kind |-> "Panic"]

\* EnvFile::get_env; an index past the end and the unreachable!() arm panic
get_env(e, lines, key) ==
    IF key \notin DOMAIN e THEN None
    ELSE IF e[key] >= Len(lines) THEN Panic
    ELSE IF lines[e[key] + 1].tag = "Env" THEN Some(lines[e[key] + 1].value)
    ELSE Panic

unwrap_or(opt, default) == IF opt.kind = "Some" THEN opt.value ELSE default
\* an upsert that appends a new key without recording its position
put_env_without_index_update(e, lines, key, value) ==
    IF key \in DOMAIN e
    THEN [fault |-> FALSE, envs |-> e,
          env_file_lines |-> [lines EXCEPT ![e[key] + 1].value = value]]
    ELSE [fault |-> FALSE, envs |-> e,
          env_file_lines |-> Append(lines, EnvLine(key, value, <<>>, <<>>))]

\* an upsert that replaces the whole line of an existing key
put_env_replacing_line(e, lines, key, value) ==
    IF key \in DOMAIN e
    THEN [fault |-> FALSE, envs |-> e,
          env_file_lines |->
              [lines EXCEPT ![e[key] + 1] = EnvLine(key, value, <<>>, <<>>)]]
    ELSE [fault |-> FALSE,
          envs |-> Insert(e, key, Len(lines)),
          env_file_lines |-> Append(lines, EnvLine(key, value, <<>>, <<>>))]

put_env_with_no_sanity_check(e, lines, key, value) ==
    IF key \in DOMAIN e
    THEN IF e[key] < Len(lines) /\ lines[e[key] + 1].tag = "Env"
         THEN [fault |-> FALSE, envs |-> e,
               env_file_lines |-> [lines EXCEPT ![e[key] + 1].value = value]]
         ELSE [fault |-> TRUE, envs |-> e, env_file_lines |-> lines]
    ELSE LET pushed == Append(lines, EnvLine(key, value, <<>>, <<>>))
         IN  [fault |-> FALSE,
              envs |-> Insert(e, key, Len(pushed) - 1),
              env_file_lines |-> pushed]

\* the assert! of EnvFile::put_env
put_env_accepts(value) == ~Contains(value, "\n") /\ ~Contains(value, "\\")

put_env(e, lines, key, value) ==
    IF ~put_env_accepts(value)
    THEN [fault |-> TRUE, envs |-> e, env_file_lines |-> lines]
    ELSE put_env_with_no_sanity_check(e, lines, key,
                                      single_quote_str_for_shell(value))
\* a check that forgets the quote characters
put_path_accepts_quotes(path_val) ==
    ~\E i \in 1..Len(path_val) : path_val[i] \in {"\\", "\n"}

\* the assert! of EnvFile::put_path
put_path_accepts(path_val) ==
    ~\E i \in 1..Len(path_val) : path_val[i] \in {"\"", "'", "\\", "\n"}

PATH == <<"P", "A", "T", "H">>
\* the default list stored without its quotes
DEFAULT_PATH_UNQUOTED ==
    <<"/", "u", "s", "r", "/", "l", "o", "c", "a", "l", "/", "s", "b", "i",
      "n", ":", "/", "u", "s", "r", "/", "l", "o", "c", "a", "l", "/", "b",
      "i", "n", ":", "/", "u", "s", "r", "/", "s", "b", "i", "n", ":", "/",
      "u", "s", "r", "/", "b", "i", "n", ":", "/", "s", "b", "i", "n", ":",
      "/", "b", "i", "n", ":", "/", "u", "s", "r", "/", "g", "a", "m", "e",
      "s", ":", "/", "u", "s", "r", "/", "l", "o", "c", "a", "l", "/", "g",
      "a", "m", "e", "s">>

DEFAULT_PATH ==
    <<"'", "/", "u", "s", "r", "/", "l", "o", "c", "a", "l", "/", "s",
      "b", "i", "n", ":", "/", "u", "s", "r", "/", "l", "o", "c", "a",
      "l", "/", "b", "i", "n", ":", "/", "u", "s", "r", "/", "s", "b",
      "i", "n", ":", "/", "u", "s", "r", "/", "b", "i", "n", ":", "/",
      "s", "b", "i", "n", ":", "/", "b", "i", "n", ":", "/", "u", "s",
      "r", "/", "g", "a", "m", "e", "s", ":", "/", "u", "s", "r", "/",
      "l", "o", "c", "a", "l", "/", "g", "a", "m", "e", "s", "'">>

put_path(e, lines, path_val) ==
    IF ~put_path_accepts(path_val)
    THEN [fault |-> TRUE, envs |-> e, env_file_lines |-> lines]
    ELSE LET current == get_env(e, lines, PATH)
         IN  IF current.kind = "Panic"
             THEN [fault |-> TRUE, envs |-> e, env_file_lines |-> lines]
             ELSE LET path_variable ==
                          PathVariablePutPath(
                              PathVariableParse(unwrap_or(current, DEFAULT_PATH)),
                              path_val)
                      pathenv_value == PathVariableSerialize(path_variable)
                  IN  put_env_with_no_sanity_check(e, lines, PATH, pathenv_value)

\* what EnvFile::write writes
write_content(lines) == EnvFileLinesSerialize(lines)


(***************************************************************************)
(* EnvShellScript                                                          *)
(***************************************************************************)
\* the byte of a character, for String::cmp
CharCode ==
    [c \in {"\n", " ", "'", "*", "/", ":", "?", "A", "B", "P", "T", "H",
            "_", "a", "b", "c", "v", "w"} |->
        CASE c = "\n" -> 10 [] c = " " -> 32 [] c = "'" -> 39 [] c = "*" -> 42
          [] c = "/" -> 47 [] c = ":" -> 58 [] c = "?" -> 63 [] c = "A" -> 65
          [] c = "B" -> 66 [] c = "H" -> 72 [] c = "P" -> 80 [] c = "T" -> 84
          [] c = "_" -> 95 [] c = "a" -> 97 [] c = "b" -> 98 [] c = "c" -> 99
          [] c = "v" -> 118 [] c = "w" -> 119]

\* a.cmp(b) == Ordering::Less on strings: the first differing byte decides,
\* and a proper prefix is less
StrLess(a, b) ==
    \E i \in 1..(Len(b)) :
        /\ \A k \in 1..(i - 1) : k <= Len(a) /\ a[k] = b[k]
        /\ \/ i = Len(a) + 1
           \/ i <= Len(a) /\ CharCode[a[i]] < CharCode[b[i]]

\* the keys of a map as sort_by / sort orders them
\* the keys of a map in an order that ignores their text: the order of
\* their lengths, the longest first
RECURSIVE KeysByLength(_)
KeysByLength(keys) ==
    IF keys = {} THEN <<>>
    ELSE LET longest == CHOOSE x \in keys : \A y \in keys : Len(y) <= Len(x)
         IN  <<longest>> \o KeysByLength(keys \ {longest})

RECURSIVE SortedKeys(_)
SortedKeys(keys) ==
    IF keys = {} THEN <<>>
    ELSE LET least == CHOOSE x \in keys : \A y \in keys : x = y \/ StrLess(x, y)
         IN  <<least>> \o SortedKeys(keys \ {least})

GuardOpen ==
    <<"i", "f", " ", "[", " ", "-", "z", " ", "\"", "$", "{">>

GuardThenExport ==
    <<":", "-", "}", "\"", " ", "]", ";", " ", "t", "h", "e", "n", " ", "e",
      "x", "p", "o", "r", "t", " ">>

GuardClose ==
    <<";", " ", "f", "i", "\n">>

\* an export line whose value is put between single quotes as it is
ExportLineUnescaped(key, value) ==
    GuardOpen \o key \o GuardThenExport \o key \o <<"=">>
        \o <<"'">> \o value \o <<"'">> \o GuardClose

\* format!("if [ -z \"${{{}:-}}\" ]; then export {}={}; fi\n", key, key, quoted)
ExportLine(key, value) ==
    GuardOpen \o key \o GuardThenExport \o key \o <<"=">>
        \o single_quote_str_for_shell(value) \o GuardClose

CandidateAssign ==
    <<"_", "_", "C", "A", "N", "D", "I", "D", "A", "T", "E", "_", "P", "A",
      "T", "H", "=">>

ColonPathLine ==
    <<"_", "_", "C", "O", "L", "O", "N", "_", "P", "A", "T", "H", "=", "\"",
      ":", "$", "{", "P", "A", "T", "H", "}", ":", "\"", "\n">>

PrependLine ==
    <<"i", "f", " ", "[", " ", "\"", "$", "{", "_", "_", "C", "O", "L", "O",
      "N", "_", "P", "A", "T", "H", "#", "*", ":", "$", "{", "_", "_", "C",
      "A", "N", "D", "I", "D", "A", "T", "E", "_", "P", "A", "T", "H", "}",
      ":", "}", "\"", " ", "=", " ", "\"", "$", "{", "_", "_", "C", "O", "L",
      "O", "N", "_", "P", "A", "T", "H", "}", "\"", " ", "]", ";", " ", "t",
      "h", "e", "n", " ", "e", "x", "p", "o", "r", "t", " ", "P", "A", "T",
      "H", "=", "\"", "$", "{", "_", "_", "C", "A", "N", "D", "I", "D", "A",
      "T", "E", "_", "P", "A", "T", "H", "}", ":", "$", "{", "P", "A", "T",
      "H", "}", "\"", ";", " ", "f", "i", "\n">>

AppendLine ==
    <<"i", "f", " ", "[", " ", "\"", "$", "{", "_", "_", "C", "O", "L", "O",
      "N", "_", "P", "A", "T", "H", "#", "*", ":", "$", "{", "_", "_", "C",
      "A", "N", "D", "I", "D", "A", "T", "E", "_", "P", "A", "T", "H", "}",
      ":", "}", "\"", " ", "=", " ", "\"", "$", "{", "_", "_", "C", "O", "L",
      "O", "N", "_", "P", "A", "T", "H", "}", "\"", " ", "]", ";", " ", "t",
      "h", "e", "n", " ", "e", "x", "p", "o", "r", "t", " ", "P", "A", "T",
      "H", "=", "\"", "$", "{", "P", "A", "T", "H", "}", ":", "$", "{", "_",
      "_", "C", "A", "N", "D", "I", "D", "A", "T", "E", "_", "P", "A", "T",
      "H", "}", "\"", ";", " ", "f", "i", "\n">>

UnsetCandidateLine ==
    <<"u", "n", "s", "e", "t", " ", "_", "_", "C", "A", "N", "D", "I", "D",
      "A", "T", "E", "_", "P", "A", "T", "H", "\n">>

UnsetColonPathLine ==
    <<"u", "n", "s", "e", "t", " ", "_", "_", "C", "O", "L", "O", "N", "_",
      "P", "A", "T", "H", "\n">>

\* the text gen_shell_script pushes for one entry of paths
PathBlock(path, prepends) ==
    CandidateAssign \o single_quote_str_for_shell(path) \o <<"\n">>
        \o ColonPathLine
        \o (IF prepends THEN PrependLine ELSE AppendLine)
        \o UnsetCandidateLine \o UnsetColonPathLine

ExportLines(m, keys) == [i \in 1..Len(keys) |-> ExportLine(keys[i], m[keys[i]])]

PathBlocks(m, keys) == [i \in 1..Len(keys) |-> PathBlock(keys[i], m[keys[i]])]

gen_shell_script(e, paths) ==
    Concat(ExportLines(e, SortedKeys(DOMAIN e)))
        \o Concat(PathBlocks(paths, SortedKeys(DOMAIN paths)))

\* EnvShellScript::put_env and EnvShellScript::put_path: HashMap::insert
EnvShellScriptPut(m, key, value) == Insert(m, key, value)

NoFile == [exists |-> FALSE, content |-> <<>>]

\* OpenOptions::new().create(true).write(true).open(path), write_all: the
\* file is created when missing; an existing file is opened at offset 0 with
\* its content kept, and the script is written over its first bytes
EnvShellScriptWrite(old, script) ==
    [exists |-> TRUE,
     content |-> script \o SubSeq(old.content, Len(script) + 1, Len(old.content))]

(***************************************************************************)
(* The shell that executes the script: the statements of the script by     *)
(* their meaning in the POSIX shell language.  A shell is its variables    *)
(* (a name that is not in the domain is unset), the names it exports, and  *)
(* whether it met text it could not execute.                               *)
(***************************************************************************)
NameChars == Letters \cup Digits \cup {"_"}

CANDIDATE_PATH ==
    <<"_", "_", "C", "A", "N", "D", "I", "D", "A", "T", "E", "_", "P", "A",
      "T", "H">>

COLON_PATH == <<"_", "_", "C", "O", "L", "O", "N", "_", "P", "A", "T", "H">>

\* ${name}: the value, or the empty string when the name is unset
ShellValue(sh, name) ==
    IF name \in DOMAIN sh.vars THEN sh.vars[name] ELSE <<>>

ShellAssign(sh, name, value) ==
    [sh EXCEPT !.vars = Insert(@, name, value)]

ShellExport(sh, name, value) ==
    [sh EXCEPT !.vars = Insert(@, name, value), !.exported = @ \cup {name}]

ShellUnset(sh, name) ==
    [sh EXCEPT !.vars = [x \in DOMAIN @ \ {name} |-> @[x]],
               !.exported = @ \ {name}]

ShellError(sh) == [sh EXCEPT !.error = TRUE]

\* pattern matching notation: * is any string, ? is any character, any other
\* character is itself
RECURSIVE GlobMatch(_, _)
GlobMatch(p, s) ==
    IF p = <<>> THEN s = <<>>
    ELSE IF p[1] = "*"
    THEN \E k \in 0..Len(s) : GlobMatch(Tail(p), SubSeq(s, k + 1, Len(s)))
    ELSE /\ s # <<>>
         /\ p[1] = "?" \/ p[1] = s[1]
         /\ GlobMatch(Tail(p), Tail(s))

\* the lengths of the prefixes of s that match the pattern
MatchingPrefixes(s, pattern) ==
    {n \in 0..Len(s) : GlobMatch(pattern, SubSeq(s, 1, n))}

\* ${parameter#word}: the value without its smallest prefix that matches
RemoveSmallestPrefix(s, pattern) ==
    IF MatchingPrefixes(s, pattern) = {} THEN s
    ELSE SubSeq(s, 1 + CHOOSE n \in MatchingPrefixes(s, pattern) :
                         \A m \in MatchingPrefixes(s, pattern) : n <= m,
                Len(s))

\* "${__COLON_PATH#*:${__CANDIDATE_PATH}:}": the expansion of
\* __CANDIDATE_PATH is not quoted inside the braces, so its characters are
\* pattern characters
ColonPathWithoutCandidate(sh) ==
    RemoveSmallestPrefix(ShellValue(sh, COLON_PATH),
                         <<"*", ":">> \o ShellValue(sh, CANDIDATE_PATH) \o <<":">>)

\* if [ "${__COLON_PATH#*:${__CANDIDATE_PATH}:}" = "${__COLON_PATH}" ]; then
\* export PATH=...; fi
ShellPathGuard(sh, prepends) ==
    IF ColonPathWithoutCandidate(sh) = ShellValue(sh, COLON_PATH)
    THEN ShellExport(sh, PATH,
                     IF prepends
                     THEN ShellValue(sh, CANDIDATE_PATH) \o <<":">>
                              \o ShellValue(sh, PATH)
                     ELSE ShellValue(sh, PATH) \o <<":">>
                              \o ShellValue(sh, CANDIDATE_PATH))
    ELSE sh

\* the position of the next c from i on, or Fail
Find(s, i, c) ==
    IF SkipNotIn(s, i, {c}) > Len(s) THEN Fail ELSE SkipNotIn(s, i, {c})

\* the text inside double quotes from i to the closing quote at close:
\* ${name} is replaced by the value, everything else is literal
RECURSIVE DoubleQuoted(_, _, _, _)
DoubleQuoted(s, i, close, sh) ==
    IF i >= close THEN <<>>
    ELSE IF HasPrefixAt(s, i, <<"$", "{">>)
    THEN ShellValue(sh, SubSeq(s, i + 2, SkipIn(s, i + 2, NameChars) - 1))
             \o DoubleQuoted(s, SkipIn(s, i + 2, NameChars) + 1, close, sh)
    ELSE SubSeq(s, i, SkipNotIn(s, i, {"$", "\""}) - 1)
             \o DoubleQuoted(s, SkipNotIn(s, i, {"$", "\""}), close, sh)

WordEnd == {";", " ", "\t", "\n"}

\* a word from i: quoted and unquoted parts up to an unquoted separator;
\* [ok, value, rest]
RECURSIVE ShellWord(_, _, _, _)
ShellWordQuoted(s, i, close, sh, acc) ==
    IF close = Fail THEN [ok |-> FALSE, value |-> acc, rest |-> i]
    ELSE ShellWord(s, close + 1, sh,
                   acc \o (IF s[i] = "'" THEN SubSeq(s, i + 1, close - 1)
                           ELSE DoubleQuoted(s, i + 1, close, sh)))

ShellWord(s, i, sh, acc) ==
    IF i > Len(s) \/ s[i] \in WordEnd
    THEN [ok |-> TRUE, value |-> acc, rest |-> i]
    ELSE IF s[i] \in {"'", "\""}
    THEN ShellWordQuoted(s, i, Find(s, i + 1, s[i]), sh, acc)
    ELSE ShellWord(s, SkipNotIn(s, i, WordEnd \cup {"'", "\""}), sh,
                   acc \o SubSeq(s, i, SkipNotIn(s, i, WordEnd \cup {"'", "\""}) - 1))

RECURSIVE ShellRunFrom(_, _, _)
\* name=word and a newline, the name ending before position eq
ShellRunAssignment(s, i, eq, w, sh) ==
    IF w.ok /\ HasPrefixAt(s, w.rest, <<"\n">>)
    THEN ShellRunFrom(s, w.rest + 1, ShellAssign(sh, SubSeq(s, i, eq - 1), w.value))
    ELSE ShellError(sh)

\* if [ -z "${name:-}" ]; then export name=word; fi
\* the first name ends before position a, the second starts at b and ends
\* before position c
ShellRunGuardedExport(s, i, a, b, c, w, sh) ==
    IF /\ a > i /\ HasPrefixAt(s, a, GuardThenExport)
       /\ c > b /\ HasPrefixAt(s, c, <<"=">>)
       /\ w.ok /\ HasPrefixAt(s, w.rest, GuardClose)
    THEN ShellRunFrom(s, w.rest + Len(GuardClose),
                      IF ShellValue(sh, SubSeq(s, i, a - 1)) = <<>>
                      THEN ShellExport(sh, SubSeq(s, b, c - 1), w.value)
                      ELSE sh)
    ELSE ShellError(sh)

ShellRunGuardedExportAt(s, i, a, sh) ==
    ShellRunGuardedExport(
        s, i, a, a + Len(GuardThenExport),
        SkipIn(s, a + Len(GuardThenExport), NameChars),
        ShellWord(s, SkipIn(s, a + Len(GuardThenExport), NameChars) + 1, sh, <<>>),
        sh)

Unset == <<"u", "n", "s", "e", "t", " ">>

\* unset name and a newline, the name ending before position a
ShellRunUnset(s, i, a, sh) ==
    IF a > i /\ HasPrefixAt(s, a, <<"\n">>)
    THEN ShellRunFrom(s, a + 1, ShellUnset(sh, SubSeq(s, i, a - 1)))
    ELSE ShellError(sh)

\* the statements of the script from position i, one after the other
ShellRunFrom(s, i, sh) ==
    IF i > Len(s) THEN sh
    ELSE IF HasPrefixAt(s, i, PrependLine)
    THEN ShellRunFrom(s, i + Len(PrependLine), ShellPathGuard(sh, TRUE))
    ELSE IF HasPrefixAt(s, i, AppendLine)
    THEN ShellRunFrom(s, i + Len(AppendLine), ShellPathGuard(sh, FALSE))
    ELSE IF HasPrefixAt(s, i, GuardOpen)
    THEN ShellRunGuardedExportAt(s, i + Len(GuardOpen),
                                 SkipIn(s, i + Len(GuardOpen), NameChars), sh)
    ELSE IF HasPrefixAt(s, i, Unset)
    THEN ShellRunUnset(s, i + Len(Unset), SkipIn(s, i + Len(Unset), NameChars), sh)
    ELSE IF SkipIn(s, i, NameChars) > i /\ HasPrefixAt(s, SkipIn(s, i, NameChars), <<"=">>)
    THEN ShellRunAssignment(s, i, SkipIn(s, i, NameChars),
                            ShellWord(s, SkipIn(s, i, NameChars) + 1, sh, <<>>), sh)
    ELSE ShellError(sh)

\* sh -c script
ShellRun(script, sh) == ShellRunFrom(script, 1, sh)

(***************************************************************************)
(* Bounds and inputs                                                       *)
(***************************************************************************)
MaxOps == 4

MaxTok == 4

MaxPuts == 2

MaxPathLen == 5

\* a comment, a PATH wrapped in double quotes
FileQuotedPath ==
    <<"#", " ", "c", "\n", "P", "A", "T", "H", "=", "\"", "/", "s", "b",
      "i", "n", ":", "/", "b", "i", "n", "\"", "\n", "A", "=", "x", "\n">>

\* a PATH without quotes
FilePlainPath ==
    <<"P", "A", "T", "H", "=", "/", "s", "b", "i", "n", ":", "/", "b", "i",
      "n", "\n", "A", "=", "x", "\n">>

\* a key assigned twice, a trailing comment, no PATH
FileRepeatedKey ==
    <<"A", "=", "x", "\n", "B", "=", "y", " ", "#", "c", "\n", "A", "=",
      "z", "\n">>

\* an export prefix, a PATH in single quotes, no final terminator
FileExport ==
    <<" ", "e", "x", "p", "o", "r", "t", " ", "A", "=", "x", " ", " ", "#",
      " ", "c", "\n", "P", "A", "T", "H", "=", "'", "/", "s", "b", "i", "n",
      ":", "/", "b", "i", "n", "'">>

\* a value continued over two lines, a blank line
FileContinued ==
    <<"P", "A", "T", "H", "=", "/", "s", "b", "i", "n", ":", "\\", "\n",
      "/", "b", "i", "n", " ", "#", "c", "\n", "\n", "B", "=", "y", "\n">>

\* a malformed line, a backslash at the end of the input
FileMalformed ==
    <<"=", "=", "f", "=", " ", "=", "\n", "A", "=", "x", "\\">>

InitialFiles ==
    {<<>>, FileQuotedPath, FilePlainPath, FileRepeatedKey, FileExport,
     FileContinued, FileMalformed}

KeyA == <<"A">>

KeyB == <<"B">>

\* the arguments of EnvFile::put_env: plain, with a comment character, with
\* a single quote, and the two the assert! rejects
PutEnvInputs ==
    {[key |-> KeyA, value |-> <<"v">>],
     [key |-> KeyB, value |-> <<"a", "#", "b">>],
     [key |-> KeyB, value |-> <<"'">>],
     [key |-> KeyA, value |-> <<"v", "\\">>],
     [key |-> KeyB, value |-> <<"\n">>]}

\* the arguments of EnvFile::put_path: two new directories, a directory of the
\* default list, the empty string, and one the assert! rejects
PutPathInputs ==
    {<<"/", "t">>, <<"/", "s">>, <<"/", "b", "i", "n">>, <<>>, <<"/", "'">>}

Tokens ==
    {<<"A">>, <<"=">>, <<" ">>, <<"#">>, <<"\\">>, <<"\n">>, <<"\r">>, EXPORT}

RECURSIVE TokenTexts(_)
TokenTexts(n) ==
    IF n = 0 THEN {<<>>}
    ELSE LET shorter == TokenTexts(n - 1)
         IN  shorter \cup {t \o tok : t \in shorter, tok \in Tokens}

FirstLines == {<<>>, <<"A", "=", "y", "\n">>}

ParseInputs == {f \o t : f \in FirstLines, t \in TokenTexts(MaxTok)}

PathChars == {"a", ":", "'"}

RECURSIVE StringsUpTo(_)
StringsUpTo(n) ==
    IF n = 0 THEN {<<>>}
    ELSE LET shorter == StringsUpTo(n - 1)
         IN  shorter \cup {Append(t, c) : t \in shorter, c \in PathChars}

\* values that hold a double quote: around the whole value, around the only
\* segment, around the first segment, around the last segment
DoubleQuotedValues ==
    {<<"\"", "a", ":", "b", "\"">>,
     <<"\"", "a", "\"">>,
     <<"\"", "a", "\"", ":", "b">>,
     <<"a", ":", "\"", "b", "\"">>,
     <<"\"", "a", ":", "'", "b", "'">>,
     <<"\"", ":", "a", "\"">>}

PathValues == StringsUpTo(MaxPathLen) \cup DoubleQuotedValues

PathDirs == {<<"a">>, <<"b">>, <<"c">>}

MaxShPuts == 3

MaxRunPuts == 2

MaxRuns == 2

MaxWrites == 1

\* the arguments of EnvShellScript::put_env: two names, a value with a
\* single quote
ShPutEnvInputs ==
    {[key |-> KeyA, value |-> <<"v">>],
     [key |-> KeyA, value |-> <<"a", "'", "b">>],
     [key |-> KeyB, value |-> <<"v">>]}

\* the directories of EnvShellScript::put_path: one that is in the middle of
\* a PATH, at its front or at its back, one that is in no PATH, and one with a
\* pattern character
ShPutPathInputs == {<<"/", "b">>, <<"/", "c", " ", "c">>, <<"/", "?">>}

\* a shell with no variable; shells with a PATH that holds /b in the middle,
\* at the front and at the back, with A set, A empty, and A and B set
InitialShells ==
    {[vars |-> EmptyMap, exported |-> {}, error |-> FALSE],
     [vars |-> Insert(Insert(EmptyMap, KeyA, <<"x">>), PATH,
                      <<"/", "a", ":", "/", "b", ":", "/", "c">>),
      exported |-> {KeyA, PATH}, error |-> FALSE],
     [vars |-> Insert(Insert(EmptyMap, KeyA, <<>>), PATH,
                      <<"/", "b", ":", "/", "c">>),
      exported |-> {KeyA, PATH}, error |-> FALSE],
     [vars |-> Insert(Insert(Insert(EmptyMap, KeyA, <<"x">>), KeyB, <<"y">>),
                      PATH, <<"/", "a", ":", "/", "b">>),
      exported |-> {KeyA, KeyB, PATH}, error |-> FALSE]}

\* no file, a file shorter than any script, a file longer than any script of
\* two entries
InitialScriptFiles ==
    {NoFile,
     [exists |-> TRUE, content |-> <<"#", "\n">>],
     [exists |-> TRUE,
      content |-> PathBlock(<<"/", "o", "l", "d">>, TRUE)
                      \o PathBlock(<<"/", "o", "l", "d", "e", "r">>, TRUE)
                      \o PathBlock(<<"/", "o", "l", "d", "e", "s", "t">>, TRUE)]}

(***************************************************************************)
(* EnvFile as a state machine                                              *)
(***************************************************************************)
NoPathVariable ==
    /\ pv_src = <<>>
    /\ pv = PathVariableParse(<<>>)
    /\ pv_prev = pv
    /\ pv_hist = <<>>

NoEnvShellScript ==
    /\ sh_envs = EmptyMap
    /\ sh_paths = EmptyMap
    /\ sh_hist = <<>>
    /\ sh_file = NoFile
    /\ shell = [vars |-> EmptyMap, exported |-> {}, error |-> FALSE]
    /\ shell_prev = shell

NoEnvFile ==
    /\ opened = FALSE
    /\ envs = EmptyMap
    /\ env_file_lines = <<>>
    /\ fault = FALSE
    /\ history = <<>>
    /\ prev = [envs |-> EmptyMap, env_file_lines |-> <<>>]

\* a file with its content, or a path where File::open finds no file, or
\* a file it cannot open, or one that cannot be read
Init ==
    /\ \/ file \in InitialFiles /\ file_status = "Exists"
       \/ file = <<>> /\ file_status \in {"NotFound", "Denied", "Unreadable"}
    /\ src = file
    /\ NoEnvFile
    /\ NoPathVariable
    /\ NoEnvShellScript

Called(call) ==
    /\ history' = Append(history, call)
    /\ prev' = [envs |-> envs, env_file_lines |-> env_file_lines]

CanCall == ~fault /\ Len(history) < MaxOps

\* the caller holds the EnvFile that open returned, if it returned one
Opened(r) ==
    /\ opened' = r.ok
    /\ envs' = IF r.ok THEN r.envs ELSE EmptyMap
    /\ env_file_lines' = IF r.ok THEN r.env_file_lines ELSE <<>>

\* the effect of a method of EnvFile on its fields
Stored(r) ==
    /\ envs' = r.envs
    /\ env_file_lines' = r.env_file_lines
    /\ fault' = r.fault

Open ==
    /\ CanCall
    /\ Opened(EnvFileOpenAt(file_status, file))
    /\ Called([op |-> "open"])
    /\ UNCHANGED <<file, src, fault, pv_src, pv, pv_prev, pv_hist>>
    /\ UNCHANGED <<file_status, script_vars>>

PutEnv(key, value) ==
    /\ CanCall /\ opened
    /\ Stored(put_env(envs, env_file_lines, key, value))
    /\ Called([op |-> "put_env", key |-> key, value |-> value])
    /\ UNCHANGED <<file, src, opened, pv_src, pv, pv_prev, pv_hist>>
    /\ UNCHANGED <<file_status, script_vars>>

PutPath(path_val) ==
    /\ CanCall /\ opened
    /\ Stored(put_path(envs, env_file_lines, path_val))
    /\ Called([op |-> "put_path", path |-> path_val])
    /\ UNCHANGED <<file, src, opened, pv_src, pv, pv_prev, pv_hist>>
    /\ UNCHANGED <<file_status, script_vars>>

Write ==
    /\ CanCall /\ opened
    /\ file' = write_content(env_file_lines)
    /\ file_status' = "Exists"
    /\ Called([op |-> "write", created |-> file_status = "NotFound"])
    /\ UNCHANGED <<src, opened, envs, env_file_lines, fault,
                   pv_src, pv, pv_prev, pv_hist>>
    /\ UNCHANGED script_vars

Next ==
    \/ Open
    \/ \E in \in PutEnvInputs : PutEnv(in.key, in.value)
    \/ \E path_val \in PutPathInputs : PutPath(path_val)
    \/ Write

Spec == Init /\ [][Next]_vars

(***************************************************************************)
(* Parse and serialize over generated texts: open the file, write it back  *)
(***************************************************************************)
InitParse ==
    /\ file \in ParseInputs
    /\ file_status = "Exists"
    /\ src = file
    /\ NoEnvFile
    /\ NoPathVariable
    /\ NoEnvShellScript

OpenText == history = <<>> /\ Open

WriteText == Len(history) = 1 /\ Write

NextParse == OpenText \/ WriteText

SpecParse == InitParse /\ [][NextParse]_vars

(***************************************************************************)
(* PathVariable as a state machine                                         *)
(***************************************************************************)
InitPath ==
    /\ pv_src \in PathValues
    /\ pv = PathVariableParse(pv_src)
    /\ pv_prev = pv
    /\ pv_hist = <<>>
    /\ file = <<>>
    /\ file_status = "Exists"
    /\ src = <<>>
    /\ NoEnvFile
    /\ NoEnvShellScript

PvPutPath(path_val) ==
    /\ Len(pv_hist) < MaxPuts
    /\ pv' = PathVariablePutPath(pv, path_val)
    /\ pv_prev' = pv
    /\ pv_hist' = Append(pv_hist, path_val)
    /\ UNCHANGED <<pv_src, file, src, opened, envs, env_file_lines, fault,
                   history, prev>>
    /\ UNCHANGED <<file_status, script_vars>>

NextPath == \E path_val \in PathDirs : PvPutPath(path_val)

SpecPath == InitPath /\ [][NextPath]_vars

(***************************************************************************)
(* EnvShellScript and the shell as a state machine                         *)
(***************************************************************************)
NewEnvShellScript ==
    /\ sh_envs = EmptyMap
    /\ sh_paths = EmptyMap
    /\ sh_hist = <<>>
    /\ file = <<>>
    /\ file_status = "Exists"
    /\ src = <<>>
    /\ NoEnvFile
    /\ NoPathVariable

InitScript ==
    /\ NewEnvShellScript
    /\ sh_file \in InitialScriptFiles
    /\ shell = [vars |-> EmptyMap, exported |-> {}, error |-> FALSE]
    /\ shell_prev = shell

InitShell ==
    /\ NewEnvShellScript
    /\ sh_file = NoFile
    /\ shell \in InitialShells
    /\ shell_prev = shell

IsPut(call) == call.op \in {"put_env", "put_path"}

IsRun(call) == call.op = "run"

IsWrite(call) == call.op = "write"

\* the script is built first, then written, then executed
CanPut ==
    /\ Len(sh_hist) < MaxShPuts
    /\ \A i \in 1..Len(sh_hist) : IsPut(sh_hist[i])

ShPutEnv(key, value) ==
    /\ CanPut
    /\ sh_envs' = EnvShellScriptPut(sh_envs, key, value)
    /\ sh_hist' = Append(sh_hist, [op |-> "put_env", key |-> key, value |-> value])
    /\ UNCHANGED <<sh_paths, sh_file, shell, shell_prev, envfile_vars, path_vars>>

ShPutPath(path, prepends) ==
    /\ CanPut
    /\ sh_paths' = EnvShellScriptPut(sh_paths, path, prepends)
    /\ sh_hist' = Append(sh_hist, [op |-> "put_path", path |-> path,
                                   prepends |-> prepends])
    /\ UNCHANGED <<sh_envs, sh_file, shell, shell_prev, envfile_vars, path_vars>>

\* EnvShellScript::write when the file can be opened and written
ShWrite ==
    /\ Len(SelectSeq(sh_hist, IsWrite)) < MaxWrites
    /\ SelectSeq(sh_hist, IsRun) = <<>>
    /\ sh_file' = EnvShellScriptWrite(sh_file, gen_shell_script(sh_envs, sh_paths))
    /\ sh_hist' = Append(sh_hist, [op |-> "write"])
    /\ UNCHANGED <<sh_envs, sh_paths, shell, shell_prev, envfile_vars, path_vars>>

\* a shell executes the script of gen_shell_script()
ShRun ==
    /\ Len(SelectSeq(sh_hist, IsRun)) < MaxRuns
    /\ shell' = ShellRun(gen_shell_script(sh_envs, sh_paths), shell)
    /\ shell_prev' = shell
    /\ sh_hist' = Append(sh_hist, [op |-> "run"])
    /\ UNCHANGED <<sh_envs, sh_paths, sh_file, envfile_vars, path_vars>>

NextScript ==
    \/ \E in \in ShPutEnvInputs : ShPutEnv(in.key, in.value)
    \/ \E path \in ShPutPathInputs, prepends \in BOOLEAN : ShPutPath(path, prepends)
    \/ ShWrite

SpecScript == InitScript /\ [][NextScript]_vars

\* the scripts that are executed are built by fewer calls
ShPutEnvToRun(key, value) == Len(sh_hist) < MaxRunPuts /\ ShPutEnv(key, value)

ShPutPathToRun(path, prepends) ==
    Len(sh_hist) < MaxRunPuts /\ ShPutPath(path, prepends)

NextShell ==
    \/ \E in \in ShPutEnvInputs : ShPutEnvToRun(in.key, in.value)
    \/ \E path \in ShPutPathInputs, prepends \in BOOLEAN :
           ShPutPathToRun(path, prepends)
    \/ ShRun

SpecShell == InitShell /\ [][NextShell]_vars

(***************************************************************************)
(* Properties                                                              *)
(***************************************************************************)
LastCall == history[Len(history)]

After(op) == history # <<>> /\ LastCall.op = op /\ ~fault

\* the positions (from 1) of the assignment lines of a key
AssignmentsOf(lines, key) ==
    {i \in 1..Len(lines) : lines[i].tag = "Env" /\ lines[i].key = key}

Max(set) == CHOOSE m \in set : \A n \in set : n <= m

KeysOf(lines) == {lines[i].key : i \in {j \in 1..Len(lines) : lines[j].tag = "Env"}}

\* the file was opened and written back, nothing else
WrittenBack ==
    /\ Len(history) = 2
    /\ history[1].op = "open" /\ history[2].op = "write"

\* the input ends inside the value of its last assignment: its final
\* newline is the escaped character of a backslash-newline continuation
EndsInContinuation ==
    /\ env_file_lines # <<>>
    /\ LET last == Last(env_file_lines)
       IN  /\ last.tag = "Env"
           /\ last.following_characters = <<>>
           /\ Len(last.value) >= 2
           /\ SubSeq(last.value, Len(last.value) - 1, Len(last.value))
                  = <<"\\", "\n">>
           /\ Len(src) >= Len(last.value)
           /\ SubSeq(src, Len(src) - Len(last.value) + 1, Len(src)) = last.value

\* C1 as stated: serialize(parse(text)) is text, or text + "\n" exactly when
\* text does not end with a line terminator.
C1_RoundTripAsStated ==
    WrittenBack =>
        file = IF src = <<>> \/ Last(src) = "\n" THEN src ELSE src \o <<"\n">>

\* C1 amended: serialize(parse(text)) is text + "\n" exactly when text is not
\* empty and either does not end with a newline or ends with a newline that
\* is the continuation at the end of the last assignment's value; otherwise
\* it is text.
C1_RoundTrip ==
    WrittenBack =>
        file = IF src # <<>> /\ (Last(src) # "\n" \/ EndsInContinuation)
               THEN src \o <<"\n">>
               ELSE src

\* an input of two assignments that ends with a continuation
C1_Witness ==
    /\ WrittenBack
    /\ EndsInContinuation
    /\ Len(env_file_lines) = 2
    /\ Last(src) = "\n"
    /\ file = src \o <<"\n">>

\* C3: after open, get_env(key) is the value of the last assignment line of
\* key in file order, and not-found for a key without an assignment line.
C3_LastWins ==
    (history = <<[op |-> "open"]>> /\ opened) =>
        \A key \in KeysOf(env_file_lines) \cup {KeyA, KeyB, EXPORT} :
            get_env(envs, env_file_lines, key) =
                IF AssignmentsOf(env_file_lines, key) = {} THEN None
                ELSE Some(env_file_lines[
                              Max(AssignmentsOf(env_file_lines, key))].value)

\* a key assigned twice with different values, a key never assigned
C3_Witness ==
    /\ history = <<[op |-> "open"]>>
    /\ Cardinality(AssignmentsOf(env_file_lines, KeyA)) = 2
    /\ env_file_lines[1].value # env_file_lines[2].value
    /\ get_env(envs, env_file_lines, KeyA) = Some(env_file_lines[2].value)
    /\ get_env(envs, env_file_lines, KeyB) = None

Range(seq) == {seq[i] : i \in 1..Len(seq)}

\* C2: every key of the index maps to the last assignment line of that key,
\* every key with an assignment line is in the index, and get_env does not
\* reach its unreachable!() branch.
C2_IndexAgreesWithDocument ==
    opened =>
        /\ \A key \in DOMAIN envs :
               /\ AssignmentsOf(env_file_lines, key) # {}
               /\ envs[key] + 1 = Max(AssignmentsOf(env_file_lines, key))
               /\ get_env(envs, env_file_lines, key).kind = "Some"
        /\ \A key \in KeysOf(env_file_lines) : key \in DOMAIN envs

\* after a put_env and a put_path, with a key that has two assignment lines
C2_Witness ==
    /\ After("put_path")
    /\ \E i \in 1..Len(history) : history[i].op = "put_env"
    /\ Cardinality(AssignmentsOf(env_file_lines, KeyA)) = 2
    /\ DOMAIN envs = {KeyA, KeyB, PATH}

\* C4: put_env on a key with an assignment changes only the value of the
\* key's last assignment line; on a key without one it appends one
\* assignment line with empty leading and trailing text and changes no line.
C4_UpsertFrame ==
    After("put_env") =>
        LET key == LastCall.key
            stored == single_quote_str_for_shell(LastCall.value)
            old == prev.env_file_lines
            at == AssignmentsOf(old, key)
        IN  IF at # {}
            THEN /\ Len(env_file_lines) = Len(old)
                 /\ \A i \in 1..Len(old) :
                        env_file_lines[i] =
                            IF i = Max(at) THEN [old[i] EXCEPT !.value = stored]
                            ELSE old[i]
            ELSE env_file_lines = Append(old, EnvLine(key, stored, <<>>, <<>>))

\* put_env on a key assigned twice, with a line in between
C4_Witness ==
    /\ After("put_env")
    /\ Cardinality(AssignmentsOf(prev.env_file_lines, LastCall.key)) = 2
    /\ Len(env_file_lines) = 3
    /\ env_file_lines[3] # prev.env_file_lines[3]
    /\ env_file_lines[1] = prev.env_file_lines[1]

\* C5 as stated: after put_env(key, value) with a value without newline and
\* backslash, write and a fresh open, get_env(key) is the single-quoted
\* literal put_env stored.
C5_SafePutReadsBack ==
    LET n == Len(history)
    IN  (/\ n >= 3
         /\ ~fault
         /\ history[n - 2].op = "put_env"
         /\ history[n - 1].op = "write"
         /\ history[n].op = "open"
         /\ ~Contains(history[n - 2].value, "\n")
         /\ ~Contains(history[n - 2].value, "\\"))
        => get_env(envs, env_file_lines, history[n - 2].key)
               = Some(single_quote_str_for_shell(history[n - 2].value))

InvalidCall(call) ==
    \/ /\ call.op = "put_env"
       /\ Contains(call.value, "\n") \/ Contains(call.value, "\\")
    \/ /\ call.op = "put_path"
       /\ \E c \in {"\"", "'", "\\", "\n"} : Contains(call.path, c)

\* C6: put_env with a newline or a backslash in the value, and put_path with
\* a quote, a backslash or a newline in the directory, end in a fault and
\* leave the lines and the index as they were.
C6_InvalidArgumentsFault ==
    (history # <<>> /\ InvalidCall(LastCall)) =>
        /\ fault
        /\ env_file_lines = prev.env_file_lines
        /\ envs = prev.envs

\* a rejected put_path on a document that has lines
C6_Witness ==
    /\ history # <<>>
    /\ LastCall.op = "put_path"
    /\ InvalidCall(LastCall)
    /\ fault
    /\ env_file_lines # <<>>

HasPath(lines) == AssignmentsOf(lines, PATH) # {}

PathValue(lines) == lines[Max(AssignmentsOf(lines, PATH))].value

\* the directory of the last call was put by an earlier put_path on the
\* same document
PutEarlier ==
    \E i \in 1..(Len(history) - 1) :
        /\ history[i].op = "put_path"
        /\ history[i].path = LastCall.path
        /\ \A j \in (i + 1)..Len(history) : history[j].op # "open"

\* C7 as stated, for a directory that is not the empty string: put_path of
\* a directory that is already a directory of the PATH value, or that an
\* earlier put_path added, changes nothing.
C7_PutPathDedup ==
    (/\ After("put_path")
     /\ LastCall.path # <<>>
     /\ \/ PutEarlier
        \/ /\ HasPath(prev.env_file_lines)
           /\ LastCall.path \in Range(PathVariableIter(
                  PathVariableParse(PathValue(prev.env_file_lines)))))
    => /\ env_file_lines = prev.env_file_lines
       /\ envs = prev.envs

DefaultList ==
    <<"/", "u", "s", "r", "/", "l", "o", "c", "a", "l", "/", "s", "b", "i",
      "n", ":", "/", "u", "s", "r", "/", "l", "o", "c", "a", "l", "/", "b",
      "i", "n", ":", "/", "u", "s", "r", "/", "s", "b", "i", "n", ":", "/",
      "u", "s", "r", "/", "b", "i", "n", ":", "/", "s", "b", "i", "n", ":",
      "/", "b", "i", "n", ":", "/", "u", "s", "r", "/", "g", "a", "m", "e",
      "s", ":", "/", "u", "s", "r", "/", "l", "o", "c", "a", "l", "/", "g",
      "a", "m", "e", "s">>

DefaultDirs == Split(DefaultList, ":")

Quoted(s) == <<"'">> \o s \o <<"'">>

Inner(s) == SubSeq(s, 2, Len(s) - 1)

\* the file was opened once, at the start, and had no PATH assignment
OpenedWithoutPath ==
    /\ history # <<>>
    /\ history[1].op = "open"
    /\ \A j \in 2..Len(history) : history[j].op # "open"
    /\ ~HasPath(EnvFileOpen(src).env_file_lines)

IsPutPath(call) == call.op = "put_path"

\* the directories of the put_path calls, oldest first
PutPathArgs ==
    LET calls == SelectSeq(history, IsPutPath)
    IN  [i \in 1..Len(calls) |-> calls[i].path]

\* the directories of a sequence that are not known, each once, in the
\* order of their first occurrence
RECURSIVE FirstAdds(_, _)
FirstAdds(dirs, known) ==
    IF dirs = <<>> THEN <<>>
    ELSE IF Head(dirs) \in known THEN FirstAdds(Tail(dirs), known)
    ELSE <<Head(dirs)>> \o FirstAdds(Tail(dirs), known \cup {Head(dirs)})

\* the values a merge of dir into old may give: old itself, dir in single
\* quotes before old, or dir at the front inside the quotes around old
MergedInto(old, dir) ==
    {old, single_quote_str_for_shell(dir) \o <<":">> \o old}
        \cup {<<q>> \o dir \o <<":">> \o Inner(old) \o <<q>> :
                 q \in {c \in {"'", "\""} :
                           Len(old) >= 2 /\ old[1] = c /\ old[Len(old)] = c}}

\* the default list is not used when a PATH assignment exists: the value
\* that was there is kept whole, and no line is added
C8_ExistingPathKept ==
    (After("put_path") /\ HasPath(prev.env_file_lines)) =>
        /\ Len(env_file_lines) = Len(prev.env_file_lines)
        /\ PathValue(env_file_lines)
               \in MergedInto(PathValue(prev.env_file_lines), LastCall.path)

\* C8 as stated: without a PATH assignment put_path(d) appends one PATH line
\* with the value 'd:<default list>'; a later put_path adds its directory at
\* the front inside the same single quotes; the default list is not used
\* when a PATH assignment exists.
C8_DefaultPathAsStated ==
    /\ (After("put_path") /\ ~HasPath(prev.env_file_lines)) =>
           env_file_lines =
               Append(prev.env_file_lines,
                      EnvLine(PATH,
                              Quoted(LastCall.path \o <<":">> \o DefaultList),
                              <<>>, <<>>))
    /\ (After("put_path") /\ OpenedWithoutPath /\ HasPath(prev.env_file_lines)) =>
           PathValue(env_file_lines) =
               Quoted(LastCall.path \o <<":">>
                          \o Inner(PathValue(prev.env_file_lines)))
    /\ C8_ExistingPathKept

\* C8 amended: without a PATH assignment put_path(d) appends one PATH line,
\* whose value is 'd:<default list>' when d is not a directory of the
\* default list and '<default list>' when it is; after put_path calls none
\* of which but the last put the empty string, the value is, inside one pair
\* of single quotes, the directories that were new when put, latest first,
\* then the default list; the default list is not used when a PATH
\* assignment exists.
C8_DefaultPath ==
    /\ (After("put_path") /\ ~HasPath(prev.env_file_lines)) =>
           env_file_lines =
               Append(prev.env_file_lines,
                      EnvLine(PATH,
                              IF LastCall.path \in Range(DefaultDirs)
                              THEN Quoted(DefaultList)
                              ELSE Quoted(LastCall.path \o <<":">> \o DefaultList),
                              <<>>, <<>>))
    /\ (/\ After("put_path")
        /\ OpenedWithoutPath
        /\ \A i \in 1..(Len(PutPathArgs) - 1) : PutPathArgs[i] # <<>>)
       => PathValue(env_file_lines) =
              Quoted(Join(Reverse(FirstAdds(PutPathArgs, Range(DefaultDirs)))
                              \o DefaultDirs, <<":">>))
    /\ C8_ExistingPathKept

\* two new directories put into a document without PATH
C8_Witness ==
    /\ OpenedWithoutPath
    /\ After("put_path")
    /\ PutPathArgs = << <<"/", "t">>, <<"/", "s">> >>
    /\ PathValue(env_file_lines) =
           Quoted(<<"/", "s", ":", "/", "t", ":">> \o DefaultList)
    /\ Len(env_file_lines) = Len(EnvFileOpen(src).env_file_lines) + 1

(***************************************************************************)
(* Properties of PathVariable                                              *)
(***************************************************************************)
OriginalSegments == PathVariableParse(pv_src).parsed_paths

\* C9: put_path of an original segment or of a directory put earlier leaves
\* serialize() and iter() as they were; no directory is twice among the
\* added segments, or both among the added and the original segments.
C9_PathVariableDedup ==
    /\ (/\ pv_hist # <<>>
        /\ Last(pv_hist) \in Range(OriginalSegments)
                                 \cup Range(SubSeq(pv_hist, 1, Len(pv_hist) - 1)))
       => /\ PathVariableSerialize(pv) = PathVariableSerialize(pv_prev)
          /\ PathVariableIter(pv) = PathVariableIter(pv_prev)
    /\ \A i, j \in 1..Len(pv.added_paths) :
           pv.added_paths[i] = pv.added_paths[j] => i = j
    /\ Range(pv.added_paths) \cap Range(pv.parsed_paths) = {}

\* inside a surrounding quote: a new directory, then one that is an
\* original segment once the quote is removed
C9_Witness ==
    /\ pv.surrounding_quote = <<"'">>
    /\ Len(pv_hist) = 2
    /\ pv.added_paths = <<pv_hist[1]>>
    /\ pv_hist[2] \in Range(pv.parsed_paths)
    /\ pv_hist[2] \notin Range(Split(pv_src, ":"))

\* C10: serialize() and iter() list the directories that were new when put,
\* latest first, then the original segments in their order.
C10_PathOrdering ==
    LET added == Reverse(FirstAdds(pv_hist, Range(OriginalSegments)))
        quote == pv.surrounding_quote
        shown == [i \in 1..Len(added) |->
                      IF quote = <<>> THEN single_quote_str_for_shell(added[i])
                      ELSE added[i]]
    IN  /\ PathVariableIter(pv) = added \o OriginalSegments
        /\ PathVariableSerialize(pv)
               = quote \o Join(shown \o OriginalSegments, <<":">>) \o quote

\* put(a) then put(b), both new, before two original segments
C10_Witness ==
    /\ Len(pv_hist) = 2
    /\ pv.added_paths = pv_hist
    /\ pv_hist[1] # pv_hist[2]
    /\ Len(pv.parsed_paths) = 2
    /\ PathVariableIter(pv) = <<pv_hist[2], pv_hist[1]>> \o pv.parsed_paths

\* the text of the source value between its colons
SourceSegments == Split(pv_src, ":")

\* q opens the first segment without closing it and closes the last segment
\* without opening it
SurroundsSource(q) ==
    LET first == SourceSegments[1]
        last == SourceSegments[Len(SourceSegments)]
    IN  /\ first # <<>> /\ first[1] = q /\ first[Len(first)] # q
        /\ last # <<>> /\ last[Len(last)] = q /\ last[1] # q

QuoteCharacters == {"'", "\""}

\* C11: a quote character is taken as surrounding exactly when it opens the
\* first segment without closing it and closes the last segment without
\* opening it; serialize() then gives the added directories as they are and
\* the original segments, joined by colons, inside that quote; otherwise it
\* gives each added directory in single quotes and then the segments of the
\* source value as they were.
C11_QuotePreservation ==
    /\ \A q \in QuoteCharacters :
           (pv.surrounding_quote = <<q>>) <=> SurroundsSource(q)
    /\ (pv.surrounding_quote = <<>>)
           <=> (\A q \in QuoteCharacters : ~SurroundsSource(q))
    /\ \A q \in QuoteCharacters :
           SurroundsSource(q)
               => PathVariableSerialize(pv)
                      = <<q>> \o Join(Reverse(pv.added_paths)
                                          \o Split(Inner(pv_src), ":"), <<":">>)
                              \o <<q>>
    /\ (\A q \in QuoteCharacters : ~SurroundsSource(q))
           => PathVariableSerialize(pv)
                  = Join(Reverse([i \in 1..Len(pv.added_paths) |->
                                      Quoted(pv.added_paths[i])])
                             \o SourceSegments, <<":">>)

\* "a:b" in double quotes after put_path(c)
C11_Witness ==
    /\ pv_src = <<"\"", "a", ":", "b", "\"">>
    /\ pv.added_paths = <<<<"c">>>>
    /\ PathVariableSerialize(pv) = <<"\"", "c", ":", "a", ":", "b", "\"">>

(***************************************************************************)
(* Properties of EnvShellScript                                            *)
(***************************************************************************)
\* a comes before b in the lexicographic order of their bytes
RECURSIVE LexBefore(_, _)
LexBefore(a, b) ==
    IF b = <<>> THEN FALSE
    ELSE IF a = <<>> THEN TRUE
    ELSE IF a[1] = b[1] THEN LexBefore(Tail(a), Tail(b))
    ELSE CharCode[a[1]] < CharCode[b[1]]

\* the members of a set of strings, each once, in lexicographic order
InLexOrder(set) ==
    CHOOSE q \in [1..Cardinality(set) -> set] :
        \A i, j \in 1..Cardinality(set) : i < j => LexBefore(q[i], q[j])

\* the positions in the history of the calls of op whose field is name
CallsOf(op, field, name) ==
    {i \in 1..Len(sh_hist) : sh_hist[i].op = op /\ sh_hist[i][field] = name}

LastCallOf(op, field, name) == sh_hist[Max(CallsOf(op, field, name))]

NamesPut ==
    {sh_hist[i].key : i \in {j \in 1..Len(sh_hist) : sh_hist[j].op = "put_env"}}

DirsPut ==
    {sh_hist[i].path : i \in {j \in 1..Len(sh_hist) : sh_hist[j].op = "put_path"}}

\* C12: the script is one guarded export line per name put, with the value
\* of the last put_env of the name, in lexicographic order, and then one
\* PATH block per directory put, with the flag of the last put_path of the
\* directory, in lexicographic order; nothing else, whatever the order of
\* the calls.
C12_ScriptStructure ==
    LET names == InLexOrder(NamesPut)
        dirs == InLexOrder(DirsPut)
    IN  gen_shell_script(sh_envs, sh_paths)
            = Concat([i \in 1..Len(names) |->
                         ExportLine(names[i],
                                    LastCallOf("put_env", "key", names[i]).value)])
              \o Concat([i \in 1..Len(dirs) |->
                            PathBlock(dirs[i],
                                      LastCallOf("put_path", "path",
                                                 dirs[i]).prepends)])

\* put_path(/c c, append), put_env(A, v), put_path(/c c, prepend): the line
\* of A, then the one block of /c c, which prepends
C12_Witness ==
    /\ Len(sh_hist) = 3
    /\ sh_hist[1] = [op |-> "put_path", path |-> <<"/", "c", " ", "c">>,
                     prepends |-> FALSE]
    /\ sh_hist[2].op = "put_env"
    /\ sh_hist[3] = [op |-> "put_path", path |-> <<"/", "c", " ", "c">>,
                     prepends |-> TRUE]
    /\ gen_shell_script(sh_envs, sh_paths)
           = ExportLine(sh_hist[2].key, sh_hist[2].value)
                 \o PathBlock(<<"/", "c", " ", "c">>, TRUE)

AfterRun == sh_hist # <<>> /\ sh_hist[Len(sh_hist)].op = "run"

\* the name is set to a value that is not empty
SetIn(sh, name) == name \in DOMAIN sh.vars /\ sh.vars[name] # <<>>

\* C13: after the script ran, a name that was put and that the shell had set
\* to a value that is not empty has the value it had; a name that was put and
\* that the shell had unset or empty is exported with the value of its last
\* put_env.  (The names put are shell names other than PATH and the two
\* scratch names.)
C13_GuardedExport ==
    AfterRun =>
        /\ ~shell.error
        /\ \A name \in NamesPut :
               IF SetIn(shell_prev, name)
               THEN /\ name \in DOMAIN shell.vars
                    /\ shell.vars[name] = shell_prev.vars[name]
                    /\ name \in shell.exported <=> name \in shell_prev.exported
               ELSE /\ name \in DOMAIN shell.vars
                    /\ shell.vars[name] = LastCallOf("put_env", "key", name).value
                    /\ name \in shell.exported

\* put_env(A, a'b), put_env(B, v), run: A was x and is x; B was unset and
\* is exported with the value v
C13_Witness ==
    /\ Len(sh_hist) = 3 /\ AfterRun
    /\ sh_hist[1] = [op |-> "put_env", key |-> KeyA, value |-> <<"a", "'", "b">>]
    /\ sh_hist[2] = [op |-> "put_env", key |-> KeyB, value |-> <<"v">>]
    /\ SetIn(shell_prev, KeyA) /\ KeyB \notin DOMAIN shell_prev.vars
    /\ shell_prev.vars[KeyA] = <<"x">>
    /\ shell.vars[KeyA] = <<"x">>
    /\ shell.vars[KeyB] = <<"v">> /\ KeyB \in shell.exported

\* the value of PATH, empty when PATH is unset
PathOf(sh) == IF PATH \in DOMAIN sh.vars THEN sh.vars[PATH] ELSE <<>>

\* PATH after the block of directory d: as it was when d is one of its
\* entries, and otherwise with d as a new first or last entry
AfterBlock(path, d, prepends) ==
    IF d \in Range(Split(path, ":")) THEN path
    ELSE IF prepends THEN d \o <<":">> \o path
    ELSE path \o <<":">> \o d

\* PATH after the blocks of the directories dirs, in their order
RECURSIVE AfterBlocks(_, _)
AfterBlocks(path, dirs) ==
    IF dirs = <<>> THEN path
    ELSE AfterBlocks(AfterBlock(path, Head(dirs),
                                LastCallOf("put_path", "path", Head(dirs)).prepends),
                     Tail(dirs))

\* the run before the last call was a run too
RanTwice ==
    /\ Len(sh_hist) >= 2
    /\ sh_hist[Len(sh_hist)].op = "run"
    /\ sh_hist[Len(sh_hist) - 1].op = "run"

\* C14: a PATH block leaves PATH as it was when its directory is an entry of
\* PATH, and otherwise adds the directory once, at the front or at the back
\* as its flag says; a second run of the script changes no variable; the two
\* scratch names are unset after the run.
C14_ScriptPathGuard ==
    /\ (AfterRun /\ DirsPut # {})
           => /\ PathOf(shell) = AfterBlocks(PathOf(shell_prev), InLexOrder(DirsPut))
              /\ CANDIDATE_PATH \notin DOMAIN shell.vars
              /\ COLON_PATH \notin DOMAIN shell.vars
    /\ RanTwice => shell = shell_prev

(***************************************************************************)
(* Properties of the parser                                                *)
(***************************************************************************)
JustOpened == history = <<[op |-> "open"]>>

\* the number of characters the lines before line n serialize to
SerializedBefore(n) == Len(EnvFileLinesSerialize(SubSeq(env_file_lines, 1, n - 1)))

\* C15: EnvFileLines::parse succeeds on every input and consumes all of it;
\* the empty input gives the empty document; no content is dropped, and a
\* line that is not an assignment is kept as one opaque line, which is its
\* text in the input and the terminator.
C15_ParseTotality ==
    JustOpened =>
        /\ opened
        /\ EnvFileLinesParse(src).ok
        /\ EnvFileLinesParse(src).rest = Len(src) + 1
        /\ src = <<>> => env_file_lines = <<>>
        /\ Len(EnvFileLinesSerialize(env_file_lines)) >= Len(src)
        /\ SubSeq(EnvFileLinesSerialize(env_file_lines), 1, Len(src)) = src
        /\ \A n \in 1..Len(env_file_lines) :
               env_file_lines[n].tag = "Other" =>
                   LET text == env_file_lines[n].text
                   IN  /\ Last(text) = "\n"
                       /\ ~Contains(SubSeq(text, 1, Len(text) - 1), "\n")
                       /\ text = SubSeq(src \o <<"\n">>, SerializedBefore(n) + 1,
                                        SerializedBefore(n) + Len(text))

\* an assignment, then the malformed text = = without a terminator
C15_Witness ==
    /\ JustOpened
    /\ src = <<"A", "=", "y", "\n", "=", " ", "=">>
    /\ Len(env_file_lines) = 2
    /\ env_file_lines[1].tag = "Env"
    /\ env_file_lines[2] = OtherLine(<<"=", " ", "=", "\n">>)

(***************************************************************************)
(* Properties of EnvFile::open on a path without a readable file           *)
(***************************************************************************)
\* open found no file, then one put_env, then a write that created the file
CreatedByWrite ==
    /\ Len(history) = 3 /\ ~fault
    /\ history[1].op = "open"
    /\ history[2].op = "put_env"
    /\ history[3].op = "write" /\ history[3].created

\* C16: open of a path without a file succeeds with the empty document and
\* the empty index, so that get_env finds no key; after put_env(k, v) and
\* write() the file exists and holds the one line k='v'; open of a file that
\* cannot be opened or read gives no EnvFile.
C16_MissingFileOnOpen ==
    /\ (JustOpened /\ file_status = "NotFound")
           => /\ opened
              /\ env_file_lines = <<>>
              /\ envs = EmptyMap
              /\ \A key \in {KeyA, KeyB, PATH} :
                     get_env(envs, env_file_lines, key) = None
    /\ CreatedByWrite
           => /\ file_status = "Exists"
              /\ file = history[2].key \o <<"=">>
                            \o (IF Contains(history[2].value, "'")
                                THEN single_quote_str_for_shell(history[2].value)
                                ELSE Quoted(history[2].value))
                            \o <<"\n">>
    /\ (JustOpened /\ file_status \in {"Denied", "Unreadable"}) => ~opened

\* no file, put_env(A, v), write: the file is A='v'
C16_Witness ==
    /\ CreatedByWrite
    /\ history[2].key = KeyA
    /\ file = <<"A", "=", "'", "v", "'", "\n">>

\* C17: a PathVariable without added directories serializes to the string it
\* was parsed from, whatever the string; when parse finds a surrounding
\* quote, the two slices that strip it are within the first and the last
\* segment.
C17_PathVariableIdentity ==
    /\ pv.added_paths = <<>> => PathVariableSerialize(pv) = pv_src
    /\ PathVariableSerialize(PathVariableParse(pv_src)) = pv_src
    /\ FindSurroundingQuote(SourceSegments) # <<>>
           => ~StripSurroundingPanics(SourceSegments)

\* 'a:a' after put_path(a), which is one of its segments
C17_Witness ==
    /\ pv_src = <<"'", "a", ":", "a", "'">>
    /\ pv_hist = <<<<"a">>>>
    /\ pv.surrounding_quote = <<"'">>
    /\ pv.added_paths = <<>>
    /\ PathVariableSerialize(pv) = pv_src

\* the last call was write()
JustWritten == sh_hist # <<>> /\ sh_hist[Len(sh_hist)].op = "write"

\* C18: after write() the script file exists and holds exactly the text of
\* gen_shell_script(), whatever the file held before.
C18_ScriptFileContent ==
    JustWritten =>
        /\ sh_file.exists
        /\ sh_file.content = gen_shell_script(sh_envs, sh_paths)

\* the end of the longest run of key characters at the start of the text
KeyEnd == SkipIn(src, 1, Letters \cup Digits \cup {"_"})

\* the end of the value that the value grammar accepts after KeyEnd and "="
ValueEnd == declaration_value(src, KeyEnd + 1)

\* the text starts with a line K=V: a key, "=", a value, the end of the line
StartsWithKeyValueLine ==
    /\ KeyEnd > 1
    /\ HasPrefixAt(src, KeyEnd, <<"=">>)
    /\ ValueEnd > Len(src) \/ src[ValueEnd] = "\n"

\* C19: a first line K=V, K made of letters, digits and underscores, parses
\* into an assignment with key K, no leading text and value V, and when it is
\* the only line get_env(K) is V; keys that begin with "export" included.
C19_KeyFidelity ==
    (JustOpened /\ StartsWithKeyValueLine) =>
        /\ env_file_lines # <<>>
        /\ env_file_lines[1] = EnvLine(SubSeq(src, 1, KeyEnd - 1),
                                       SubSeq(src, KeyEnd + 1, ValueEnd - 1),
                                       <<>>, <<>>)
        /\ Len(env_file_lines) = 1 =>
               get_env(envs, env_file_lines, SubSeq(src, 1, KeyEnd - 1))
                   = Some(SubSeq(src, KeyEnd + 1, ValueEnd - 1))

=============================================================================
